---- MODULE Spec2Model ----
(***************************************************************************)
(* Model of the authentication core of the task-management dashboard:      *)
(* SupabaseService (auth-state mirror), AuthService (profile cache and the *)
(* signUp / signIn / signOut / updateProfile operations) and the login and *)
(* registration form components.                                           *)
(*                                                                         *)
(* Conventions.  A nullable value (T | null) is a sequence of length at    *)
(* most one: Null is the empty sequence and Some(v) the one-element        *)
(* sequence.  A string the code inspects (length, substring search) is a   *)
(* sequence: of characters for form input, of words for error messages.    *)
(***************************************************************************)
EXTENDS Integers, Sequences, FiniteSets, TLC

VARIABLES
  sdkSession,     \* the session user held by the backend SDK (nullable user id)
  listening,      \* initAuthListener has passed its await and registered onAuthStateChange
  currentUser,    \* SupabaseService.currentUserSubject.value (nullable user id)
  rows,           \* the remote profiles table: user id -> nullable Profile row
  profileSignal,  \* AuthService.profileSignal (nullable Profile)
  loadingSignal,  \* AuthService.loadingSignal
  errorSignal,    \* AuthService.errorSignal (nullable string)
  requests,       \* backend requests in flight
  ops,            \* AuthService operations called and not yet completed: id -> record
  emitted,        \* the result delivered by the step that led here, with its operation (nullable)
  opCount,        \* number of operations called so far
  events,         \* number of auth-state changes the SDK made on its own so far
  page,           \* the page shown: "login", "register", "dashboard", or "none" (not shown yet)
  form            \* the value of the form of that page

vars == << sdkSession, listening, currentUser, rows, profileSignal, loadingSignal,
           errorSignal, requests, ops, emitted, opCount, events, page, form >>

\* the state of the two services, the result of the last step apart
svcVars == << sdkSession, listening, currentUser, rows, profileSignal, loadingSignal,
              errorSignal, requests, ops, opCount, events >>

uiVars == << page, form >>

----------------------------------------------------------------------------
(* Bounds of the model *)

\* operations (signUp, signIn, signOut, updateProfile) called in one behaviour
MaxOps == 1
\* auth-state changes the SDK makes on its own (token refresh, expiry, other tab)
MaxEvents == 1

----------------------------------------------------------------------------
(* Nullable values and strings *)

Null == << >>
Some(v) == << v >>
Val(o) == o[1]

\* a string literal taken whole (a text the code only stores and compares)
Text(s) == << s >>

\* s.includes(key): key occurs in s as a contiguous run
Includes(s, key) ==
  \E i \in 0..(Len(s) - Len(key)) :
     \A j \in 1..Len(key) : s[i + j] = key[j]

\* x || y on strings: the empty string and undefined/null are falsy.
\* x is a nullable string, the result a string.
OrElse(x, y) == IF x = Null \/ Val(x) = << >> THEN y ELSE Val(x)

----------------------------------------------------------------------------
(* user.interface.ts *)

ADMIN == "admin"
MEMBER == "member"
UserRole == {ADMIN, MEMBER}

\* The accounts of the backend: user ids, and the e-mail address of each.
Users == {"u1", "u2"}
EmailA == << "a", "@", "b" >>
EmailC == << "c", "@", "d" >>
Account(email) ==
  IF email = EmailA THEN Some("u1")
  ELSE IF email = EmailC THEN Some("u2")
  ELSE Null

Profile(id, full_name, role) == [id |-> id, full_name |-> full_name, role |-> role]

AuthResponse(success, error, profile) ==
  [success |-> success, error |-> error, profile |-> profile]

----------------------------------------------------------------------------
(* AuthService.formatAuthError *)

\* errorMap, in the order Object.entries enumerates it (insertion order)
errorMap == <<
  [key |-> << "Invalid", "login", "credentials" >>,
   value |-> Text("Invalid email or password. Please try again.")],
  [key |-> << "Email", "not", "confirmed" >>,
   value |-> Text("Please verify your email address before signing in.")],
  [key |-> << "User", "already", "registered" >>,
   value |-> Text("An account with this email already exists.")],
  [key |-> << "Password", "should", "be", "at", "least", "6", "characters" >>,
   value |-> Text("Password must be at least 6 characters long.")],
  [key |-> << "Unable", "to", "validate", "email", "address:", "invalid", "format" >>,
   value |-> Text("Please enter a valid email address.")],
  [key |-> << "Database", "error", "saving", "new", "user" >>,
   value |-> Text("Registration failed. Please try again.")],
  [key |-> << "signup", "is", "disabled" >>,
   value |-> Text("Registration is currently disabled. Please contact support.")] >>

\* the for loop over the entries, from entry i on
RECURSIVE formatFrom(_, _)
formatFrom(error, i) ==
  IF i > Len(errorMap) THEN error
  ELSE IF Includes(error, errorMap[i].key) THEN errorMap[i].value
  ELSE formatFrom(error, i + 1)

\* a plausible slip: exact comparison in place of includes
formatAuthErrorExact(error) ==
  IF \E i \in 1..Len(errorMap) : errorMap[i].key = error
    THEN errorMap[CHOOSE i \in 1..Len(errorMap) : errorMap[i].key = error].value
    ELSE error

formatAuthError(error) == formatFrom(error, 1)

UnexpectedError == Text("An unexpected error occurred")
FailedToLoadProfile == Text("Failed to load user profile")
FailedToSignOut == Text("Failed to sign out. Please try again.")
FailedToUpdate == Text("Failed to update profile")
NoUserLoggedIn == Text("No user logged in")

\* Messages the backend reports in this model: one holding, after a prefix,
\* two keys of the map (the key of the later entry first), and one holding
\* no key.
Messages == {
  << "AuthApiError:", "User", "already", "registered", "/", "Email", "not", "confirmed" >>,
  << "Failed", "to", "fetch" >> }

\* The message of a thrown error: undefined, empty, or one of the above.
ThrownMessages == {Null, Some(<< >>)} \cup { Some(m) : m \in Messages }

----------------------------------------------------------------------------
(* AuthService: computed signals *)

\* profileSignal()?.role
OptRole(p) == IF p = Null THEN "undefined" ELSE Val(p).role
\* profileSignal()?.id
OptId(p) == IF p = Null THEN Null ELSE Some(Val(p).id)

isAuthenticated == profileSignal # Null

\* a plausible slip: the role test without the null test it relies on
isAdminNoNullCheck == OptRole(profileSignal) # MEMBER

isAdmin == OptRole(profileSignal) = ADMIN

----------------------------------------------------------------------------
(* Requests to the backend, operations, results *)

NoRequest == [void |-> TRUE]

\* A request in flight.  op is the operation whose pipeline issued it (0: the
\* auth-state subscriber of AuthService), cause the operation in reaction to
\* which it was issued (0: none); copy tells requests apart that are alike
\* in everything else.
Req(copy, kind, op, cause, arg) ==
  [copy |-> copy, kind |-> kind, op |-> op, cause |-> cause, arg |-> arg]

Alike(reqs, kind, op, cause, arg) ==
  { r \in reqs : r.kind = kind /\ r.op = op /\ r.cause = cause /\ r.arg = arg }

\* reqs and one more request
Issue(reqs, kind, op, cause, arg) ==
  reqs \cup { Req(Cardinality(Alike(reqs, kind, op, cause, arg)) + 1, kind, op, cause, arg) }

\* Requests alike are interchangeable: the one that completes is taken to be
\* the one of the highest copy.
Completes(r) ==
  /\ r \in requests
  /\ r.copy = Cardinality(Alike(requests, r.kind, r.op, r.cause, r.arg))

\* An operation called and not completed; nreq counts the requests its own
\* pipeline has issued.
Op(id, kind, via, request, nreq) ==
  [id |-> id, kind |-> kind, via |-> via, request |-> request, nreq |-> nreq]

OpOf(r) == CHOOSE o \in ops : o.id = r.op

\* What a completed operation delivered: outcome is what the backend answered
\* to its first request ("ok", "error", "thrown", "nouser"; "noprofile" when
\* none was sent), message the backend's error message, user the user the
\* backend returned, response the AuthResponse of signIn/signUp, ok the
\* boolean of updateProfile, navs the router.navigate calls of signOut.
Done(o, outcome, message, user, response, ok, navs) ==
  Some([kind |-> o.kind, nreq |-> o.nreq, outcome |-> outcome, message |-> message, user |-> user,
        response |-> response, ok |-> ok, navs |-> navs])

\* The answers of the backend to an auth call: an error result with a
\* message, a thrown error with or without a message, a result with neither
\* error nor user.  (The successful answer is stated where it is used.)
Failures ==
  { [type |-> "error", message |-> Some(m)] : m \in Messages } \cup
  { [type |-> "thrown", message |-> mm] : mm \in ThrownMessages } \cup
  { [type |-> "nouser", message |-> Null] }

----------------------------------------------------------------------------
(* SupabaseService *)

\* a plausible slip: initializeAuth run twice, so that two subscribers fetch
subscriberRequestsTwice(reqs, user, cause) ==
  IF user # Null
    THEN Issue(Issue(reqs, "fetch", 0, cause, [userId |-> Val(user)]),
               "fetch", 0, cause, [userId |-> Val(user)])
    ELSE reqs

\* a plausible slip: the subscriber clears the profile for no user but starts
\* no fetch for a user
subscriberRequestsNone(reqs, user, cause) == reqs

\* AuthService's subscriber to currentUser$ (initializeAuth), run on each
\* emission: the requests in flight afterwards ...
subscriberRequests(reqs, user, cause) ==
  IF user # Null
    THEN Issue(reqs, "fetch", 0, cause, [userId |-> Val(user)])
    ELSE reqs

\* ... and the cached profile afterwards.
subscriberProfile(p, user) == IF user # Null THEN p ELSE Null

Init ==
  /\ sdkSession \in {Null, Some("u1")}
  /\ listening = FALSE
  /\ currentUser = Null
  /\ rows = [u \in Users |->
              IF u = "u1" THEN Some(Profile("u1", << "A", "l" >>, ADMIN)) ELSE Null]
  /\ profileSignal = Null
  /\ loadingSignal = FALSE
  /\ errorSignal = Null
  /\ requests = {}
  /\ ops = {}
  /\ emitted = Null
  /\ opCount = 0
  /\ events = 0
  /\ page = "none"
  /\ form = NoRequest

\* a plausible slip: the callback is registered but the session getSession
\* returned is not emitted
initAuthListenerNoEmit ==
  /\ ~listening
  /\ listening' = TRUE
  /\ emitted' = Null
  /\ UNCHANGED << sdkSession, currentUser, requests, profileSignal, rows,
                  loadingSignal, errorSignal, ops, opCount, events, page, form >>

\* initAuthListener: getSession resolves, the session's user is emitted and
\* the onAuthStateChange callback is registered.
initAuthListener ==
  /\ ~listening
  /\ listening' = TRUE
  /\ currentUser' = sdkSession
  /\ requests' = subscriberRequests(requests, sdkSession, 0)
  /\ profileSignal' = subscriberProfile(profileSignal, sdkSession)
  /\ emitted' = Null
  /\ UNCHANGED << sdkSession, rows, loadingSignal, errorSignal, ops,
                  opCount, events, page, form >>

\* The SDK changes its auth state on its own (token refresh: the same user;
\* session expiry: no user; sign-in in another tab: any user) and, once the
\* callback is registered, calls it.
onAuthStateChange(user) ==
  /\ events < MaxEvents
  /\ events' = events + 1
  /\ sdkSession' = user
  /\ IF listening
       THEN /\ currentUser' = user
            /\ requests' = subscriberRequests(requests, user, 0)
            /\ profileSignal' = subscriberProfile(profileSignal, user)
       ELSE UNCHANGED << currentUser, requests, profileSignal >>
  /\ emitted' = Null
  /\ UNCHANGED << listening, rows, loadingSignal, errorSignal, ops,
                  opCount, page, form >>

\* SupabaseService.isAuthenticated()
SupabaseService_isAuthenticated == currentUser # Null

----------------------------------------------------------------------------
(* The effect LoginComponent and RegisterComponent create in their constructor *)

\* The effect runs when the component is created and, in the same turn of
\* the event loop, whenever isAuthenticated has changed: on an auth page p it
\* navigates to the dashboard once a profile is cached.  Navigating destroys
\* the component, and its form with it.
effect(p, profile) ==
  IF p \in {"login", "register"} /\ profile # Null THEN "dashboard" ELSE p

formAfter(p, f) == IF p = "dashboard" THEN NoRequest ELSE f

----------------------------------------------------------------------------
(* AuthService.fetchProfile *)

\* the row the select returns: none when the request fails or no row exists
fetchedRow(r, ok) == IF ok THEN rows[r.arg.userId] ELSE Null

\* A profile fetch returns.  The fetch of the subscriber ends there; the
\* fetch of an operation's pipeline is followed by the map that builds the
\* operation's result and by the map that resets loadingSignal.
fetchProfileReturns(r, ok) ==
  /\ Completes(r)
  /\ r.kind = "fetch"
  /\ LET data == fetchedRow(r, ok) IN
     /\ profileSignal' = data
     /\ errorSignal' = IF data # Null THEN Null ELSE Some(FailedToLoadProfile)
     /\ requests' = requests \ {r}
     /\ IF r.op = 0
          THEN emitted' = Null /\ UNCHANGED << loadingSignal, ops >>
          ELSE LET o == OpOf(r) IN
               /\ loadingSignal' = FALSE
               /\ ops' = ops \ {o}
               /\ emitted' =
                    IF o.kind = "updateProfile"
                      THEN Done(o, "ok", Null, Some(r.arg.userId), Null, TRUE, 0)
                      ELSE Done(o, "ok", Null, Some(r.arg.userId),
                                Some(AuthResponse(TRUE, Null, data)), FALSE, 0)
     /\ page' = effect(page, data)
     /\ form' = formAfter(effect(page, data), form)
  /\ UNCHANGED << sdkSession, listening, currentUser, rows, opCount, events >>

----------------------------------------------------------------------------
(* AuthService.signIn and AuthService.signUp *)

\* the error of the AuthResponse built for a failed auth call
responseError(kind, f) ==
  CASE f.type = "error" -> formatAuthError(Val(f.message))
    [] f.type = "thrown" -> formatAuthError(OrElse(f.message, UnexpectedError))
    [] f.type = "nouser" ->
         IF kind = "signUp" THEN Text("User creation failed") ELSE Text("Sign in failed")

\* the value errorSignal is set to for a failed auth call
signalError(kind, f) ==
  IF f.type = "nouser"
    THEN IF kind = "signUp"
           THEN Text("User creation failed. Please try again.")
           ELSE Text("Sign in failed. Please check your credentials.")
    ELSE responseError(kind, f)

\* a plausible slip: catchError left out, so that a thrown error ends the
\* observable with an error instead of a response
authFailsUncaught(r, o, f) ==
  /\ requests' = requests \ {r}
  /\ ops' = ops \ {o}
  /\ IF f.type = "thrown"
       THEN emitted' = Null /\ UNCHANGED << errorSignal, loadingSignal >>
       ELSE /\ errorSignal' = Some(signalError(o.kind, f))
            /\ loadingSignal' = FALSE
            /\ emitted' = Done(o, f.type, f.message, Null,
                               Some(AuthResponse(FALSE, Some(responseError(o.kind, f)), Null)),
                               FALSE, 0)
  /\ UNCHANGED << sdkSession, currentUser, rows, profileSignal >>

\* The auth call of operation o failed with f: the switchMap or catchError
\* branch, then the map that resets loadingSignal.
authFails(r, o, f) ==
  /\ errorSignal' = Some(signalError(o.kind, f))
  /\ loadingSignal' = FALSE
  /\ requests' = requests \ {r}
  /\ ops' = ops \ {o}
  /\ emitted' = Done(o, f.type, f.message, Null,
                     Some(AuthResponse(FALSE, Some(responseError(o.kind, f)), Null)),
                     FALSE, 0)
  /\ UNCHANGED << sdkSession, currentUser, rows, profileSignal >>

\* a plausible slip: the success branch answers from the cache and leaves the
\* profile fetch to the subscriber
authSucceedsNoFetch(r, o, user, withSession) ==
  LET notified == withSession /\ listening IN
  /\ sdkSession' = IF withSession THEN Some(user) ELSE sdkSession
  /\ currentUser' = IF notified THEN Some(user) ELSE currentUser
  /\ profileSignal' = profileSignal
  /\ requests' = IF notified
                   THEN subscriberRequests(requests \ {r}, Some(user), o.id)
                   ELSE requests \ {r}
  /\ ops' = ops \ {o}
  /\ loadingSignal' = FALSE
  /\ emitted' = Done(o, "ok", Null, Some(user),
                     Some(AuthResponse(TRUE, Null, profileSignal)), FALSE, 0)
  /\ UNCHANGED errorSignal

\* The auth call of operation o returned user: when it comes with a session
\* the SDK stores it and calls the registered callback before the call
\* returns; then switchMap starts the operation's own profile fetch.
authSucceeds(r, o, user, withSession) ==
  LET notified == withSession /\ listening
      afterCallback == IF notified
                         THEN subscriberRequests(requests \ {r}, Some(user), o.id)
                         ELSE requests \ {r}
  IN
  /\ sdkSession' = IF withSession THEN Some(user) ELSE sdkSession
  /\ currentUser' = IF notified THEN Some(user) ELSE currentUser
  /\ profileSignal' = IF notified THEN subscriberProfile(profileSignal, Some(user))
                                  ELSE profileSignal
  /\ requests' = Issue(afterCallback, "fetch", o.id, o.id, [userId |-> user])
  /\ ops' = (ops \ {o}) \cup { [o EXCEPT !.nreq = o.nreq + 1] }
  /\ emitted' = Null
  /\ UNCHANGED << loadingSignal, errorSignal >>

signIn(request, via) ==
  /\ opCount' = opCount + 1
  /\ loadingSignal' = TRUE
  /\ errorSignal' = Null
  /\ ops' = ops \cup { Op(opCount + 1, "signIn", via, request, 1) }
  /\ requests' = Issue(requests, "signIn", opCount + 1, opCount + 1,
                        [email |-> request.email, password |-> request.password])
  /\ emitted' = Null
  /\ UNCHANGED << sdkSession, listening, currentUser, rows, profileSignal, events >>

signInReturns(r) ==
  /\ Completes(r)
  /\ r.kind = "signIn"
  /\ LET o == OpOf(r) IN
     \/ \E f \in Failures : authFails(r, o, f)
     \/ /\ Account(r.arg.email) # Null
        /\ authSucceeds(r, o, Val(Account(r.arg.email)), TRUE)
        /\ UNCHANGED rows
  /\ UNCHANGED << listening, opCount, events, page, form >>

\* a plausible slip: the role of the request dropped
roleAlwaysMember(role) == MEMBER

\* request.role || UserRole.MEMBER
roleOrMember(role) == IF role = Null \/ Val(role) = "" THEN MEMBER ELSE Val(role)

\* the argument of supabase.client.auth.signUp
signUpPayload(request) ==
  [email |-> request.email, password |-> request.password,
   data |-> [full_name |-> request.full_name, role |-> roleOrMember(request.role)]]

signUp(request, via) ==
  /\ opCount' = opCount + 1
  /\ loadingSignal' = TRUE
  /\ errorSignal' = Null
  /\ ops' = ops \cup { Op(opCount + 1, "signUp", via, request, 1) }
  /\ requests' = Issue(requests, "signUp", opCount + 1, opCount + 1, signUpPayload(request))
  /\ emitted' = Null
  /\ UNCHANGED << sdkSession, listening, currentUser, rows, profileSignal, events >>

\* The backend registers the user when the address is free; its database
\* trigger then creates the profile row from the metadata of the payload.
\* With e-mail confirmation required the answer carries a user but no session.
signUpReturns(r) ==
  /\ Completes(r)
  /\ r.kind = "signUp"
  /\ LET o == OpOf(r) IN
     \/ \E f \in Failures : authFails(r, o, f)
     \/ /\ Account(r.arg.email) # Null
        /\ rows[Val(Account(r.arg.email))] = Null
        /\ LET user == Val(Account(r.arg.email)) IN
           /\ rows' = [rows EXCEPT
                         ![user] = Some(Profile(user, r.arg.data.full_name, r.arg.data.role))]
           /\ \E withSession \in BOOLEAN : authSucceeds(r, o, user, withSession)
  /\ UNCHANGED << listening, opCount, events, page, form >>

----------------------------------------------------------------------------
(* AuthService.signOut *)

signOut ==
  /\ opCount' = opCount + 1
  /\ loadingSignal' = TRUE
  /\ errorSignal' = Null
  /\ ops' = ops \cup { Op(opCount + 1, "signOut", "api", NoRequest, 1) }
  /\ requests' = Issue(requests, "signOut", opCount + 1, opCount + 1, NoRequest)
  /\ emitted' = Null
  /\ UNCHANGED << sdkSession, listening, currentUser, rows, profileSignal,
                  events, page, form >>

\* The sign-out call returns.  Without error the SDK has dropped the session
\* and called the registered callback; the try block then clears the profile
\* and navigates.  With an error (returned or thrown) the catch block sets
\* the error, clears the profile and navigates.  finally resets loadingSignal.
signOutReturns(r, failed) ==
  /\ Completes(r)
  /\ r.kind = "signOut"
  /\ LET o == OpOf(r) IN
     /\ sdkSession' = IF failed THEN sdkSession ELSE Null
     /\ currentUser' = IF ~failed /\ listening THEN Null ELSE currentUser
     /\ profileSignal' = Null
     /\ errorSignal' = IF failed THEN Some(FailedToSignOut) ELSE errorSignal
     /\ loadingSignal' = FALSE
     /\ requests' = requests \ {r}
     /\ ops' = ops \ {o}
     /\ emitted' = Done(o, IF failed THEN "error" ELSE "ok", Null, Null, Null, FALSE, 1)
  /\ UNCHANGED << listening, rows, opCount, events, page, form >>

----------------------------------------------------------------------------
(* AuthService.updateProfile *)

updateProfile(updates) ==
  /\ opCount' = opCount + 1
  /\ LET userId == OptId(profileSignal)
         o == Op(opCount + 1, "updateProfile", "api", updates, 0) IN
     IF userId = Null
       THEN /\ errorSignal' = Some(NoUserLoggedIn)
            /\ emitted' = Done(o, "noprofile", Null, Null, Null, FALSE, 0)
            /\ UNCHANGED << loadingSignal, ops, requests >>
       ELSE /\ loadingSignal' = TRUE
            /\ ops' = ops \cup { [o EXCEPT !.nreq = 1] }
            /\ requests' = Issue(requests, "update", opCount + 1, opCount + 1,
                                  [userId |-> Val(userId), updates |-> updates])
            /\ emitted' = Null
            /\ UNCHANGED errorSignal
  /\ UNCHANGED << sdkSession, listening, currentUser, rows, profileSignal,
                  events, page, form >>

\* the row after the update (no row: nothing is updated, and no error)
updatedRow(row, updates) ==
  IF row = Null THEN Null ELSE Some([Val(row) EXCEPT !.full_name = updates.full_name])

\* The update returns: with an error (returned or thrown) the result is
\* false; otherwise switchMap starts the fetch that refreshes the profile.
updateReturns(r, failed) ==
  /\ Completes(r)
  /\ r.kind = "update"
  /\ LET o == OpOf(r) IN
     IF failed
       THEN /\ errorSignal' = Some(FailedToUpdate)
            /\ loadingSignal' = FALSE
            /\ requests' = requests \ {r}
            /\ ops' = ops \ {o}
            /\ emitted' = Done(o, "error", Null, Null, Null, FALSE, 0)
            /\ UNCHANGED rows
       ELSE /\ rows' = [rows EXCEPT ![r.arg.userId] = updatedRow(@, r.arg.updates)]
            /\ requests' = Issue(requests \ {r}, "fetch", o.id, o.id,
                                  [userId |-> r.arg.userId])
            /\ ops' = (ops \ {o}) \cup { [o EXCEPT !.nreq = o.nreq + 1] }
            /\ emitted' = Null
            /\ UNCHANGED << errorSignal, loadingSignal >>
  /\ UNCHANGED << sdkSession, listening, currentUser, profileSignal, opCount,
                  events, page, form >>

----------------------------------------------------------------------------
(* Form validation (Validators of the forms library, as the components use them) *)

NameMinLength == 2
PasswordMinLength == 6

\* Validators.required: the value is not empty
required(v) == v # << >>

\* Validators.minLength(n): an empty value passes (required covers it)
minLength(n, v) == v = << >> \/ Len(v) >= n

\* Validators.email: an empty value passes; otherwise a local part, one "@"
\* and a domain, without blanks
emailValidator(v) ==
  \/ v = << >>
  \/ \E i \in 2..(Len(v) - 1) :
        /\ v[i] = "@"
        /\ \A j \in 1..Len(v) : j # i => v[j] \notin {"@", " "}

\* Values typed into the forms
NameInputs == { << >>, << "A" >>, << "A", "l" >> }
EmailInputs == { << >>, << "a", "b" >>, EmailA, EmailC }
PasswordInputs == { << >>, << "1", "2", "3", "4", "5" >>,
                    << "1", "2", "3", "4", "5", "6" >>,
                    << "6", "5", "4", "3", "2", "1" >> }

----------------------------------------------------------------------------
(* LoginComponent *)

\* constructor (the effect's first run) and ngOnInit -> initializeForm, when
\* the login page is opened
openLogin ==
  /\ opCount < MaxOps
  /\ page' = effect("login", profileSignal)
  /\ form' = formAfter(page', [email |-> << >>, password |-> << >>, rememberMe |-> FALSE])
  /\ emitted' = Null
  /\ UNCHANGED svcVars

\* the user edits one control of the login form
editLogin ==
  /\ opCount < MaxOps
  /\ page = "login"
  /\ \/ \E v \in EmailInputs : form' = [form EXCEPT !.email = v]
     \/ \E v \in PasswordInputs : form' = [form EXCEPT !.password = v]
     \/ form' = [form EXCEPT !.rememberMe = ~@]
  /\ emitted' = Null
  /\ UNCHANGED << page, svcVars >>

\* a plausible slip: the password's minLength validator left out
loginFormValidNoLength(f) ==
  /\ required(f.email) /\ emailValidator(f.email)
  /\ required(f.password)

\* loginForm.invalid is false
loginFormValid(f) ==
  /\ required(f.email) /\ emailValidator(f.email)
  /\ required(f.password) /\ minLength(PasswordMinLength, f.password)

\* the SignInRequest onSubmit builds
credentials(f) == [email |-> f.email, password |-> f.password]

loginOnSubmit ==
  /\ page = "login"
  /\ IF ~loginFormValid(form)
       THEN \* markAllAsTouched() changes only what the template shows
            emitted' = Null /\ UNCHANGED << page, form, svcVars >>
       ELSE \* clearError() is overwritten by signIn's errorSignal.set(null)
            /\ opCount < MaxOps
            /\ signIn(credentials(form), "login")
            /\ UNCHANGED << page, form >>

----------------------------------------------------------------------------
(* RegisterComponent *)

\* constructor (the effect's first run) and ngOnInit, when the registration
\* page is opened
openRegister ==
  /\ opCount < MaxOps
  /\ page' = effect("register", profileSignal)
  /\ form' = formAfter(page', [fullName |-> << >>, email |-> << >>, password |-> << >>,
                               confirmPassword |-> << >>])
  /\ emitted' = Null
  /\ UNCHANGED svcVars

editRegister ==
  /\ opCount < MaxOps
  /\ page = "register"
  /\ \/ \E v \in NameInputs : form' = [form EXCEPT !.fullName = v]
     \/ \E v \in EmailInputs : form' = [form EXCEPT !.email = v]
     \/ \E v \in PasswordInputs : form' = [form EXCEPT !.password = v]
     \/ \E v \in PasswordInputs : form' = [form EXCEPT !.confirmPassword = v]
  /\ emitted' = Null
  /\ UNCHANGED << page, svcVars >>

\* a plausible slip: a validator that compares nothing
passwordMatchAlways(f) == Null

\* passwordMatchValidator: null, or the error { passwordMismatch: true }
passwordMatchValidator(f) ==
  IF f.password = f.confirmPassword THEN Null ELSE Some("passwordMismatch")

\* registerForm.invalid is false
registerFormValid(f) ==
  /\ required(f.fullName) /\ minLength(NameMinLength, f.fullName)
  /\ required(f.email) /\ emailValidator(f.email)
  /\ required(f.password) /\ minLength(PasswordMinLength, f.password)
  /\ required(f.confirmPassword)
  /\ passwordMatchValidator(f) = Null

\* the SignUpRequest onSubmit builds (it sets no role)
signUpData(f) ==
  [full_name |-> f.fullName, email |-> f.email, password |-> f.password, role |-> Null]

registerOnSubmit ==
  /\ page = "register"
  /\ IF ~registerFormValid(form)
       THEN \* markAllAsTouched() changes only what the template shows
            emitted' = Null /\ UNCHANGED << page, form, svcVars >>
       ELSE /\ opCount < MaxOps
            /\ signUp(signUpData(form), "register")
            /\ UNCHANGED << page, form >>

----------------------------------------------------------------------------
(* Callers of the service other than the two forms *)

SignInRequests == [email : {EmailA, EmailC}, password : { << "s", "e", "c", "r", "e", "t" >> }]

SignUpRequests ==
  [email : {EmailC}, password : { << "s", "e", "c", "r", "e", "t" >> },
   full_name : { << "C", "y" >> }, role : {Null, Some(ADMIN), Some(MEMBER)}]

ProfileUpdates == [full_name : { << "B", "o" >> }]

apiSignIn == \E request \in SignInRequests : signIn(request, "api") /\ UNCHANGED uiVars
apiSignUp == \E request \in SignUpRequests : signUp(request, "api") /\ UNCHANGED uiVars
apiUpdateProfile == \E updates \in ProfileUpdates : updateProfile(updates)

----------------------------------------------------------------------------
(* Specifications *)

\* what the SDK, the backend and the service do between calls
Backend ==
  \/ initAuthListener
  \/ \E r \in requests, ok \in BOOLEAN : fetchProfileReturns(r, ok)
  \/ \E r \in requests : signInReturns(r)
  \/ \E r \in requests : signUpReturns(r)

\* what the service does without being called
Reacts ==
  \/ Backend
  \/ \E user \in {Null} \cup { Some(u) : u \in Users } : onAuthStateChange(user)
  \/ \E r \in requests, failed \in BOOLEAN : signOutReturns(r, failed)
  \/ \E r \in requests, failed \in BOOLEAN : updateReturns(r, failed)

\* the service with any caller of its public operations
Next ==
  \/ Reacts
  \/ opCount < MaxOps /\ apiSignIn
  \/ opCount < MaxOps /\ apiSignUp
  \/ opCount < MaxOps /\ signOut
  \/ opCount < MaxOps /\ apiUpdateProfile

Spec == Init /\ [][Next]_vars

\* the same with one operation more, for operations that overlap
NextOverlap ==
  \/ Reacts
  \/ opCount < MaxOps + 1 /\ apiSignIn
  \/ opCount < MaxOps + 1 /\ apiSignUp
  \/ opCount < MaxOps + 1 /\ signOut
  \/ opCount < MaxOps + 1 /\ apiUpdateProfile

SpecOverlap == Init /\ [][NextOverlap]_vars

\* The same, with what the event loop and the backend guarantee: while the
\* getSession promise, a profile fetch or an auth call is pending, one of
\* them is settled.
FairSpec == Spec /\ WF_vars(Backend)

\* the service driven by the login and registration pages
NextUI ==
  \/ Backend
  \/ openLogin
  \/ editLogin
  \/ loginOnSubmit
  \/ openRegister
  \/ editRegister
  \/ registerOnSubmit

SpecUI == Init /\ [][NextUI]_vars

\* The same, with what the event loop and the backend guarantee: while the
\* getSession promise, a profile fetch or an auth call is pending, one of
\* them is settled.
FairSpecUI == SpecUI /\ WF_vars(Backend)

----------------------------------------------------------------------------
(* Properties *)

FetchesInFlight == { r \in requests : r.kind = "fetch" }

\* the profile row of the current user, none when there is no current user
RowOfCurrentUser == IF currentUser = Null THEN Null ELSE rows[Val(currentUser)]

\* C1: whenever no profile fetch is in flight, the cached profile is null if
\* the current user is null and is the current user's profile row otherwise.
\* Stated for the states most favourable to the code: the auth-state callback
\* is registered, no operation is in progress and the error signal is null,
\* so that no failed fetch and no failed sign-out accounts for a difference.
C1_ProfileMirrorsCurrentUser ==
  (listening /\ FetchesInFlight = {} /\ ops = {} /\ errorSignal = Null)
    => profileSignal = RowOfCurrentUser

AuthKinds == {"signIn", "signUp"}

\* C2: every AuthResponse of signIn or signUp with success = true carries a
\* profile, and it is the profile of the user the backend returned.
C2_SuccessCarriesProfile ==
  (emitted # Null /\ Val(emitted).kind \in AuthKinds /\ Val(Val(emitted).response).success)
    => /\ Val(Val(emitted).response).profile # Null
       /\ Some(Val(Val(Val(emitted).response).profile).id) = Val(emitted).user

\* C3: when signOut completes, the cached profile is null, isLoading is false,
\* one navigation to /auth/login has been issued, and the error signal is null
\* on success and the sign-out failure text on failure.
C3_SignOutCompletion ==
  (emitted # Null /\ Val(emitted).kind = "signOut")
    => /\ profileSignal = Null
       /\ loadingSignal = FALSE
       /\ Val(emitted).navs = 1
       /\ errorSignal = IF Val(emitted).outcome = "ok" THEN Null ELSE Some(FailedToSignOut)

\* the requests in flight issued by the pipeline of operation o
OwnRequests(o) == { r \in requests : r.op = o.id }
\* the profile fetches in flight the subscriber started in reaction to o
ListenerRequests(o) == { r \in requests : r.op = 0 /\ r.cause = o.id }
\* all requests in flight caused by o
CausedBy(o) == { r \in requests : r.cause = o.id }

\* C4 (as stated): while a user action is in progress at most one backend
\* request caused by it is in flight, the subscriber's profile fetches included.
C4_SingleRequestInFlight == \A o \in ops : Cardinality(CausedBy(o)) <= 1

\* C4 (amended): while a user action is in progress, at most one request
\* issued by its own pipeline and at most one profile fetch started by the
\* subscriber in reaction to it are in flight.
C4_OneOwnOneListenerRequest ==
  \A o \in ops : /\ Cardinality(OwnRequests(o)) <= 1
                 /\ Cardinality(ListenerRequests(o)) <= 1

\* C4 witness: a sign-in or sign-up with its own profile fetch and the
\* subscriber's profile fetch in flight together.
C4_TwoFetchesInFlight ==
  \E o \in ops : \E r1 \in OwnRequests(o), r2 \in ListenerRequests(o) :
     r1.kind = "fetch" /\ r2.kind = "fetch" /\ r1.arg = r2.arg

\* C5 (as stated): every operation issues exactly one backend request between
\* its call and its result.  Stated for the operations that reach the backend
\* (updateProfile without a cached profile issues none).
C5_ExactlyOneRequest ==
  (emitted # Null /\ Val(emitted).outcome # "noprofile") => Val(emitted).nreq = 1

\* the number of requests the code issues for a result
RequestsFor(e) ==
  CASE e.kind = "signOut" -> 1
    [] e.kind \in AuthKinds -> IF e.outcome = "ok" THEN 2 ELSE 1
    [] e.kind = "updateProfile" ->
         IF e.outcome = "noprofile" THEN 0 ELSE IF e.outcome = "ok" THEN 2 ELSE 1

\* C5 (amended): signOut issues one request; signIn and signUp issue one and,
\* when the backend answers with a user and no error, a second one (the
\* profile fetch); updateProfile issues none without a cached profile, one
\* when the update fails and two (update, profile fetch) when it is accepted.
C5_RequestsPerOperation == emitted # Null => Val(emitted).nreq = RequestsFor(Val(emitted))

\* C5 witness: a sign-in delivered success after two requests.
C5_SignInTookTwoRequests ==
  /\ emitted # Null
  /\ Val(emitted).kind = "signIn"
  /\ Val(Val(emitted).response).success
  /\ Val(emitted).nreq = 2

\* the entries of the error map whose key occurs in message m
Matching(m) == { i \in 1..Len(errorMap) : Includes(m, errorMap[i].key) }

\* the friendly text for m: the value of the first matching entry, m itself
\* when no entry matches
Friendly(m) ==
  IF Matching(m) = {} THEN m
  ELSE errorMap[CHOOSE i \in Matching(m) : \A j \in Matching(m) : i <= j].value

\* the message the code formats: the backend's, and the fallback text when a
\* thrown error has none (undefined or empty)
Reported(e) ==
  IF e.outcome = "thrown" /\ (e.message = Null \/ Val(e.message) = << >>)
    THEN UnexpectedError
    ELSE Val(e.message)

\* C6: when the backend reports an auth error with message m for signIn or
\* signUp, as an error result or as a thrown error, the error of the response
\* is the friendly text of the first entry of the error map whose key occurs
\* in m, and m unchanged when none does; the fallback text stands for m when a
\* thrown error has no message.
C6_ErrorIsFormatted ==
  (emitted # Null /\ Val(emitted).kind \in AuthKinds /\ Val(emitted).outcome \in {"error", "thrown"})
    => Val(Val(emitted).response).error = Some(Friendly(Reported(Val(emitted))))

\* C6 witness: a message holding the keys of two entries, the key of the
\* later entry first, answered with the text of the earlier entry.
C6_FirstEntryWins ==
  /\ emitted # Null
  /\ Val(emitted).kind \in AuthKinds
  /\ Val(emitted).outcome = "error"
  /\ Cardinality(Matching(Val(Val(emitted).message))) = 2
  /\ Val(Val(emitted).response).error = Some(errorMap[2].value)

\* the operations called in a step
Called == { o \in ops' : o.id > opCount }

\* C7: RegisterComponent.onSubmit calls signUp only with a full name of at
\* least 2 characters, a well-formed e-mail address, a password of at least 6
\* characters and a confirmation equal to the password, and passes the form's
\* full name, e-mail address and password.
C7_RegisterSubmitsValidForm ==
  [][ (page = "register" /\ Called # {}) =>
        /\ Len(form.fullName) >= 2
        /\ form.email # << >> /\ emailValidator(form.email)
        /\ Len(form.password) >= 6
        /\ form.confirmPassword # << >>
        /\ form.confirmPassword = form.password
        /\ \A o \in Called :
              /\ o.kind = "signUp"
              /\ o.request.full_name = form.fullName
              /\ o.request.email = form.email
              /\ o.request.password = form.password ]_vars

\* C7 witness: a sign-up called from the registration form is in progress.
C7_RegisterSubmitted ==
  \E o \in ops : o.via = "register" /\ o.kind = "signUp" /\ Len(o.request.password) >= 6

\* C8: LoginComponent.onSubmit calls signIn only with a well-formed e-mail
\* address and a password of at least 6 characters; the request is exactly
\* the form's e-mail address and password, and a change of rememberMe changes
\* nothing of the services' state.
C8_LoginSubmitsValidForm ==
  [][ /\ (page = "login" /\ Called # {}) =>
           /\ form.email # << >> /\ emailValidator(form.email)
           /\ Len(form.password) >= 6
           /\ \A o \in Called :
                 /\ o.kind = "signIn"
                 /\ o.request = [email |-> form.email, password |-> form.password]
                 /\ \E r \in requests' : r.op = o.id /\ r.arg = o.request
      /\ (page = "login" /\ page' = "login" /\ form'.rememberMe # form.rememberMe)
           => UNCHANGED svcVars ]_vars

\* C8 witness: a sign-in called from the login form with rememberMe checked
\* is in progress.
C8_LoginSubmitted ==
  /\ page = "login"
  /\ form.rememberMe
  /\ \E o \in ops : o.via = "login" /\ o.kind = "signIn"

\* C9: the role signUp sends is the role of the request, and 'member' when
\* the request has none; an 'admin' role is sent as it is, whatever the role
\* of the caller.
C9_RoleForwarded ==
  \A r \in requests :
     r.kind = "signUp" =>
        r.arg.data.role = IF OpOf(r).request.role = Null THEN MEMBER
                          ELSE Val(OpOf(r).request.role)

\* C9 witness: a sign-up request with role 'admin' in flight, sent by a
\* caller that is not an admin.
C9_AdminRoleSent ==
  /\ ~isAdmin
  /\ \E r \in requests :
        r.kind = "signUp" /\ OpOf(r).request.role = Some(ADMIN) /\ r.arg.data.role = ADMIN

\* the service as constructed: nothing has been called and nothing has arrived
Constructed == opCount = 0 /\ ~listening /\ requests = {}

\* C10: isAuthenticated is true exactly when the cached profile is non-null,
\* isAdmin exactly when it is non-null with role 'admin'; isAdmin implies
\* isAuthenticated, and both are false in the service as constructed.
C10_ComputedSignals ==
  /\ isAuthenticated <=> profileSignal # Null
  /\ isAdmin <=> (profileSignal # Null /\ Val(profileSignal).role = ADMIN)
  /\ isAdmin => isAuthenticated
  /\ Constructed => (~isAuthenticated /\ ~isAdmin)

\* C10 witness: an authenticated admin, reached through a profile fetch.
C10_AdminAuthenticated == isAdmin /\ isAuthenticated /\ currentUser # Null

\* C11: session restore.  When the application starts with a session of u1 in
\* the SDK, then, unless an operation is called, the SDK changes its auth
\* state on its own or the profile fetch fails, eventually currentUser is u1
\* and the cached profile is u1's profile row.  When it starts without a
\* session, currentUser and the cached profile are null and no request but
\* a sign-out is in flight, and this stays so across every step in which
\* the SDK gets no session and no signIn or signUp is called.
Restored ==
  /\ currentUser = Some("u1")
  /\ profileSignal # Null
  /\ profileSignal = rows["u1"]

NoSessionNoProfile ==
  /\ sdkSession = Null
  /\ currentUser = Null
  /\ profileSignal = Null
  /\ requests = { r \in requests : r.kind = "signOut" }

C11_SessionRestore ==
  /\ (~listening /\ sdkSession = Some("u1") /\ opCount = 0 /\ events = 0)
       ~> (Restored \/ opCount > 0 \/ events > 0 \/ errorSignal # Null)
  /\ (sdkSession = Null => NoSessionNoProfile)
  /\ [][(NoSessionNoProfile /\ sdkSession' = Null
                            /\ \A o \in ops' : o.kind \notin AuthKinds)
          => NoSessionNoProfile']_vars

\* the session of u1 restored without any operation and any SDK event
C11_RestoredUntouched == listening /\ opCount = 0 /\ events = 0 /\ Restored

\* C12: SupabaseService mirrors the auth state of the SDK.  From the moment
\* the callback is registered currentUser is the session user of the SDK
\* (null without a session) after every step; a change the SDK made while
\* getSession was pending is taken over when getSession resolves, so that
\* eventually currentUser equals the session user for good; and
\* SupabaseService.isAuthenticated() is true exactly when currentUser is
\* not null.
C12_MirrorsSdkSession ==
  /\ [](listening => currentUser = sdkSession)
  /\ <>[](currentUser = sdkSession)
  /\ [](SupabaseService_isAuthenticated <=> currentUser # Null)

\* after the last change the SDK makes on its own, to a session of another
\* user than the one held at the start, currentUser is that user
C12_MirrorsOtherUser ==
  /\ listening
  /\ events = MaxEvents
  /\ sdkSession = Some("u2")
  /\ currentUser = Some("u2")
  /\ SupabaseService_isAuthenticated

\* C13: every step that ends a signIn or signUp operation ends one operation
\* and delivers one AuthResponse, and no other step delivers one; in the
\* response success is true exactly when error is null, and profile is null
\* when success is false.  Every signIn and signUp called comes to its end
\* (so it delivers a response, and no error of the observable), whatever
\* the backend returns or throws.
Finished == { o \in ops : o.kind \in AuthKinds /\ \A p \in ops' : p.id # o.id }

WellFormed(response) ==
  /\ response.success <=> response.error = Null
  /\ ~response.success => response.profile = Null

C13_OneWellFormedResponse ==
  /\ [][ /\ Cardinality(Finished) <= 1
         /\ (Finished # {}) <=> (emitted' # Null /\ Val(emitted').kind \in AuthKinds)
         /\ Finished # {} =>
              /\ \E o \in Finished : o.kind = Val(emitted').kind
              /\ Val(emitted').response # Null
              /\ WellFormed(Val(Val(emitted').response)) ]_vars
  /\ <>[](\A o \in ops : o.kind \notin AuthKinds)

\* a sign-up whose call threw has delivered a failure response
C13_ThrownAnswered ==
  /\ emitted # Null
  /\ Val(emitted).kind = "signUp"
  /\ Val(emitted).outcome = "thrown"
  /\ Val(emitted).response # Null
  /\ ~Val(Val(emitted).response).success
  /\ Val(Val(emitted).response).error # Null

\* C14: whenever updateProfile delivers true, the backend accepted the update
\* and the cached profile is not null and is the profile row, as stored
\* after the update, of the user whose profile was updated.
C14_TrueMeansRefreshed ==
  (emitted # Null /\ Val(emitted).kind = "updateProfile" /\ Val(emitted).ok)
    => /\ Val(emitted).outcome = "ok"
       /\ profileSignal # Null
       /\ profileSignal = rows[Val(Val(emitted).user)]

\* C15: on the login and registration pages, a response with success = true
\* is eventually followed by the dashboard being shown; a response with
\* success = false comes with an error message to display and with no
\* navigation.
SubmissionResponse(success) ==
  /\ emitted # Null
  /\ Val(emitted).kind \in AuthKinds
  /\ Val(Val(emitted).response).success = success

C15_SubmissionOutcome ==
  /\ SubmissionResponse(TRUE) ~> (page = "dashboard")
  /\ [](SubmissionResponse(FALSE) => errorSignal # Null)
  /\ [][SubmissionResponse(FALSE)' => page' = page]_vars

\* C16: isLoading is true in every state in which a signUp, signIn, signOut
\* or updateProfile has been called and has not delivered its result.
C16_LoadingWhileInProgress == ops # {} => loadingSignal

====
